---------------------------- MODULE Spec2Model ----------------------------
(***************************************************************************)
(* Conversation thread routing engine of senfiBot: the SQLite thread       *)
(* store (database.py) and the router of enhanced_bot.py (conversation     *)
(* state, rate limiter, block registry, reply resolver).                   *)
(*                                                                         *)
(* The specifications share the state:                                     *)
(*   StoreSpec  the Database API called directly, one call per step;       *)
(*   ReadSpec   the same API together with mark_messages_as_read;          *)
(*   BlockSpec  block_user and unblock_user called for every pair;         *)
(*   Spec       one bot process: every step is one inbound update handled  *)
(*              to completion by the handlers registered in run();         *)
(*   RateSpec   the same handlers driven by one user over the instants     *)
(*              around the spacing and window limits of the rate limiter.  *)
(*   LockSpec   several bot processes starting and ending on one working   *)
(*              directory: acquire_lock, run() and release_lock, one       *)
(*              system call per step; LockLiveSpec adds that a process     *)
(*              inside release_lock keeps running.                         *)
(*   ResolveSpec  one user, two responders and the user's replies;         *)
(*   PeerSpec   a responder identity writing to another responder;         *)
(*   CapSpec    one user writing to two responders while a window fills.   *)
(***************************************************************************)
EXTENDS Integers, Sequences, FiniteSets, TLC

\* ------------------------------------------------------------------ bounds
\* API calls of one run of StoreSpec.
MaxStoreCalls == 4
\* Last clock value of StoreSpec (seconds).
MaxStoreTime == 1
\* Last clock value of Spec (seconds, in steps of MIN_INTERVAL_SECONDS).
MaxBotTime == 10
\* Updates handled in one run of Spec, and in one run of RateSpec.
MaxUpdates == 6
MaxRateUpdates == 9
\* Bot processes of LockSpec; each is started once.
MaxProcs == 3
\* Updates handled in one run of ResolveSpec, and its last clock value.
MaxResolveUpdates == 9
MaxResolveTime == 10
\* Updates handled in one run of PeerSpec.
MaxPeerUpdates == 7
\* Updates handled in one run of CapSpec, and its last instant.
MaxCapUpdates == 11
MaxCapTime == 50

\* --------------------------------------------------------- program constants
\* Python's None; sqlite3's lastrowid on a connection that inserted nothing is 0.
None == -1
NoRowId == 0
MAX_MESSAGES_PER_10_MINUTES == 5
WINDOW_SECONDS == 600
MIN_INTERVAL_SECONDS == 10
CHOOSING_ROLE == 0
WAITING_FOR_MESSAGE == 1
\* ConversationHandler.END
END == -1

\* The roles table after update_roles_from_env: role_id -> user_id of the
\* account holding the role (two of the five role slots are configured).
RoleUser == <<1, 2>>
Roles == DOMAIN RoleUser
\* The accounts that talk to the bot: the two role holders and one student.
Student == 3
Person == {RoleUser[r] : r \in Roles} \cup {Student}
\* Config.ADMIN_USER_ID
ADMIN_USER_ID == 1
\* The people who open conversations in Spec.
Senders == {Student}
\* The bot processes started on one working directory.
Procs == 1..MaxProcs
\* No file (lock_file is None, bot.lock does not exist) and no flock holder.
NoFile == 0
NoProc == 0

VARIABLES
    now,                 \* wall clock in seconds (CURRENT_TIMESTAMP, datetime.now())
    threads,             \* threads table: row i has thread_id i
    messages,            \* messages table: row i has message_id i
    blocks,              \* blocks table: set of rows
    message_mappings,    \* message_mappings table: telegram_message_id -> thread_id
    user_states,         \* EnhancedCouncilBot.user_states
    conv,                \* ConversationHandler state of each user
    message_thread_map,  \* EnhancedCouncilBot.message_thread_map (the cache)
    user_message_counts, \* EnhancedCouncilBot.user_message_counts
    user_last_message,   \* EnhancedCouncilBot.user_last_message
    next_msg_id,         \* next message id the gateway assigns
    chat_of,             \* gateway: the private chat each message id belongs to
    buttons,             \* (admin, user) pairs with a block button in the admin's chat
    sent,                \* messages the last handled update made the bot send
    forwarded_at,        \* per user: when handle_message forwarded a new message, and
                         \* whether update_rate_limit recorded it
    first_active,        \* per (user, role): first id get_active_thread returned, and when
    last,                \* the last API call or handled update, with its result
    handled,             \* number of updates the bot has handled
    lock_path,           \* the file the name bot.lock refers to, or NoFile
    flock,               \* per file ever created as bot.lock: the process holding
                         \* the exclusive flock on it, or NoProc
    proc                 \* per bot process: where it is in run(), its lock_file
                         \* and why run() ended

vars == <<now, threads, messages, blocks, message_mappings, user_states, conv,
          message_thread_map, user_message_counts, user_last_message,
          next_msg_id, chat_of, buttons, sent, forwarded_at, first_active, last,
          handled, lock_path, flock, proc>>

storeVars == <<threads, messages, blocks, message_mappings>>
botVars == <<user_states, conv, message_thread_map, user_message_counts,
             user_last_message, next_msg_id, chat_of, buttons, sent, forwarded_at,
             handled>>
lockVars == <<lock_path, flock, proc>>

\* ------------------------------------------------------------------ helpers
Falsy(x) == x = None \/ x = 0

Max(S) == CHOOSE x \in S : \A y \in S : y <= x
Min(S) == CHOOSE x \in S : \A y \in S : x <= y

\* dict.get(key): the value, or None
Get(d, k) == IF k \in DOMAIN d THEN d[k] ELSE None

\* d[k] = v on a dict
Put(d, k, v) == [x \in DOMAIN d \cup {k} |-> IF x = k THEN v ELSE d[x]]

\* The record kept in `last`: the operation, who called, its argument (a role,
\* a thread or the message id replied to), the text, the id of the inbound
\* message (the number of the call under StoreSpec), the result (the thread
\* the update was routed to) and the notice shown to the sender.
Event(op, user, arg, text, id, ret, notice) ==
    [op |-> op, user |-> user, arg |-> arg, text |-> text, id |-> id, ret |-> ret,
     notice |-> notice]

Call(op, user, arg, text, id, ret) == Event(op, user, arg, text, id, ret, "")

\* ============================================================ Thread Store
\* Rows of the pair, by thread_id.
PairThreads(th, user_id, role_id) ==
    {i \in DOMAIN th : th[i].user_id = user_id /\ th[i].role_id = role_id}

\* SELECT thread_id ... ORDER BY last_activity DESC LIMIT 1: the results SQLite
\* may give (any row of greatest last_activity), or None without a row.
\* A mutant of get_active_thread: the role is left out of the WHERE clause.
get_active_thread_any_role(th, user_id, role_id) ==
    LET rows == {i \in DOMAIN th : th[i].user_id = user_id}
    IN  IF rows = {} THEN {None}
        ELSE {i \in rows : \A j \in rows : th[j].last_activity <= th[i].last_activity}

get_active_thread(th, user_id, role_id) ==
    LET rows == PairThreads(th, user_id, role_id)
    IN  IF rows = {} THEN {None}
        ELSE {i \in rows : \A j \in rows : th[j].last_activity <= th[i].last_activity}

\* A mutant of create_thread_rows: INSERT without the lookup of an existing row.
create_thread_rows_always_insert(th, user_id, role_id, t) ==
    Append(th, [user_id |-> user_id, role_id |-> role_id,
                is_active |-> TRUE, created_at |-> t, last_activity |-> t])

\* The threads table after create_thread.
create_thread_rows(th, user_id, role_id, t) ==
    LET rows == PairThreads(th, user_id, role_id)
    IN  IF rows # {}
        THEN [th EXCEPT ![Min(rows)].is_active = TRUE,
                        ![Min(rows)].last_activity = t]
        ELSE Append(th, [user_id |-> user_id, role_id |-> role_id,
                         is_active |-> TRUE, created_at |-> t, last_activity |-> t])

\* What create_thread returns: cursor.lastrowid, read after either branch on a
\* connection opened by this call. After the INSERT it is the new thread_id;
\* after the UPDATE branch the connection has inserted nothing.
create_thread_ret(th, user_id, role_id) ==
    IF PairThreads(th, user_id, role_id) # {} THEN NoRowId ELSE Len(th) + 1

\* The messages table after add_message.
add_message_rows(ms, thread_id, telegram_message_id, sender_type, message_text, t) ==
    Append(ms, [thread_id |-> thread_id, telegram_message_id |-> telegram_message_id,
                sender_type |-> sender_type, message_text |-> message_text,
                sent_at |-> t, is_read |-> FALSE])

\* A mutant of get_thread_messages: the rows of the thread in any order.
get_thread_messages_unordered(ms, thread_id) ==
    LET rows == {i \in DOMAIN ms : ms[i].thread_id = thread_id}
        n == Cardinality(rows)
    IN  {[k \in 1..n |-> [message_id |-> f[k],
                          telegram_message_id |-> ms[f[k]].telegram_message_id,
                          sender_type |-> ms[f[k]].sender_type,
                          message_text |-> ms[f[k]].message_text,
                          sent_at |-> ms[f[k]].sent_at,
                          is_read |-> ms[f[k]].is_read]] :
            f \in {g \in [1..n -> rows] : \A j, k \in 1..n : j # k => g[j] # g[k]}}

\* SELECT ... FROM messages WHERE thread_id = ? ORDER BY sent_at ASC: the lists
\* SQLite may return (rows of equal sent_at come in any order).
get_thread_messages(ms, thread_id) ==
    LET rows == {i \in DOMAIN ms : ms[i].thread_id = thread_id}
        n == Cardinality(rows)
    IN  {[k \in 1..n |-> [message_id |-> f[k],
                          telegram_message_id |-> ms[f[k]].telegram_message_id,
                          sender_type |-> ms[f[k]].sender_type,
                          message_text |-> ms[f[k]].message_text,
                          sent_at |-> ms[f[k]].sent_at,
                          is_read |-> ms[f[k]].is_read]] :
            f \in {g \in [1..n -> rows] :
                     /\ \A j, k \in 1..n : j # k => g[j] # g[k]
                     /\ \A j, k \in 1..n : j < k => ms[g[j]].sent_at <= ms[g[k]].sent_at}}

\* The threads table after add_message (UPDATE ... WHERE thread_id = ?).
add_message_threads(th, thread_id, t) ==
    IF thread_id \in DOMAIN th THEN [th EXCEPT ![thread_id].last_activity = t] ELSE th

\* A mutant of unblock_user: DELETE keyed by the blocked user alone.
unblock_user_any_admin(bl, admin_user_id, blocked_user_id) ==
    {b \in bl : b.blocked_user_id # blocked_user_id}

\* INSERT OR REPLACE under UNIQUE(admin_user_id, blocked_user_id).
block_user(bl, admin_user_id, blocked_user_id) ==
    {b \in bl : ~(b.admin_user_id = admin_user_id /\ b.blocked_user_id = blocked_user_id)}
        \cup {[admin_user_id |-> admin_user_id, blocked_user_id |-> blocked_user_id]}

\* A mutant of mark_messages_as_read: the sender type is left out of the
\* WHERE clause.
mark_messages_as_read_whole_thread(ms, thread_id, sender_type) ==
    [i \in DOMAIN ms |->
        IF ms[i].thread_id = thread_id THEN [ms[i] EXCEPT !.is_read = TRUE] ELSE ms[i]]

\* UPDATE messages SET is_read = 1 WHERE thread_id = ? AND sender_type = ?
mark_messages_as_read(ms, thread_id, sender_type) ==
    [i \in DOMAIN ms |->
        IF ms[i].thread_id = thread_id /\ ms[i].sender_type = sender_type
        THEN [ms[i] EXCEPT !.is_read = TRUE]
        ELSE ms[i]]

\* A mutant of unblock_user: the two ids of the WHERE clause exchanged.
unblock_user_swapped(bl, admin_user_id, blocked_user_id) ==
    {b \in bl : ~(b.admin_user_id = blocked_user_id /\ b.blocked_user_id = admin_user_id)}

unblock_user(bl, admin_user_id, blocked_user_id) ==
    {b \in bl : ~(b.admin_user_id = admin_user_id /\ b.blocked_user_id = blocked_user_id)}

\* A mutant of is_user_blocked: the two ids of the WHERE clause exchanged.
is_user_blocked_swapped(bl, admin_user_id, user_id) ==
    Cardinality({b \in bl : b.admin_user_id = user_id
                            /\ b.blocked_user_id = admin_user_id}) > 0

is_user_blocked(bl, admin_user_id, user_id) ==
    Cardinality({b \in bl : b.admin_user_id = admin_user_id
                            /\ b.blocked_user_id = user_id}) > 0

\* INSERT OR REPLACE INTO message_mappings (the table only, not the cache).
save_message_mapping(mp, telegram_message_id, thread_id) ==
    Put(mp, telegram_message_id, thread_id)

\* ------------------------------------------------------------------ Init
Init ==
    /\ now = 0
    /\ threads = <<>>
    /\ messages = <<>>
    /\ blocks = {}
    /\ message_mappings = <<>>
    /\ user_states = <<>>
    /\ conv = [u \in Person |-> END]
    /\ message_thread_map = <<>>
    /\ user_message_counts = <<>>
    /\ user_last_message = <<>>
    /\ next_msg_id = 1
    /\ chat_of = <<>>
    /\ buttons = {}
    /\ sent = <<>>
    /\ forwarded_at = [u \in Person |-> <<>>]
    /\ first_active = [p \in Person \X Roles |-> [thread_id |-> None, at |-> 0]]
    /\ last = Call("init", 0, 0, "", 0, None)
    /\ handled = 0
    /\ lock_path = NoFile
    /\ flock = <<>>
    /\ proc = [p \in Procs |-> [pc |-> "idle", fd |-> NoFile, cause |-> ""]]

\* The first thread id get_active_thread gave for the pair, and the number of
\* the call or update that got it.
NoteActive(user_id, role_id, ret, n) ==
    IF first_active[<<user_id, role_id>>].thread_id = None /\ ret # None
    THEN [first_active EXCEPT ![<<user_id, role_id>>] = [thread_id |-> ret, at |-> n]]
    ELSE first_active

\* ============================================== StoreSpec: direct API calls
\* Every call is numbered in last.id; a run makes at most MaxStoreCalls calls.
StoreTick ==
    /\ now < MaxStoreTime
    /\ now' = now + 1
    /\ UNCHANGED <<storeVars, botVars, first_active, last, lockVars>>

StoreCreateThread(user_id, role_id) ==
    /\ last.id < MaxStoreCalls
    /\ threads' = create_thread_rows(threads, user_id, role_id, now)
    /\ last' = Call("create_thread", user_id, role_id, "", last.id + 1,
                    create_thread_ret(threads, user_id, role_id))
    /\ UNCHANGED <<now, messages, blocks, message_mappings, botVars, first_active, lockVars>>

StoreGetActiveThread(user_id, role_id) ==
    /\ last.id < MaxStoreCalls
    /\ \E ret \in get_active_thread(threads, user_id, role_id) :
          /\ last' = Call("get_active_thread", user_id, role_id, "", last.id + 1, ret)
          /\ first_active' = NoteActive(user_id, role_id, ret, last.id + 1)
    /\ UNCHANGED <<now, storeVars, botVars, lockVars>>

StoreAddMessage(thread_id, sender_type) ==
    /\ last.id < MaxStoreCalls
    /\ messages' = add_message_rows(messages, thread_id, Len(messages) + 1,
                                    sender_type, "hello", now)
    /\ threads' = add_message_threads(threads, thread_id, now)
    /\ last' = Call("add_message", 0, thread_id, sender_type, last.id + 1, None)
    /\ UNCHANGED <<now, blocks, message_mappings, botVars, first_active, lockVars>>

StoreBlockUser(admin_user_id, blocked_user_id) ==
    /\ last.id < MaxStoreCalls
    /\ blocks' = block_user(blocks, admin_user_id, blocked_user_id)
    /\ last' = Call("block_user", blocked_user_id, admin_user_id, "", last.id + 1, None)
    /\ UNCHANGED <<now, threads, messages, message_mappings, botVars, first_active, lockVars>>

StoreUnblockUser(admin_user_id, blocked_user_id) ==
    /\ last.id < MaxStoreCalls
    /\ blocks' = unblock_user(blocks, admin_user_id, blocked_user_id)
    /\ last' = Call("unblock_user", blocked_user_id, admin_user_id, "", last.id + 1, None)
    /\ UNCHANGED <<now, threads, messages, message_mappings, botVars, first_active, lockVars>>

StoreNext ==
    \/ StoreTick
    \/ \E u \in Person, r \in Roles : StoreCreateThread(u, r)
    \/ \E u \in Person, r \in Roles : StoreGetActiveThread(u, r)
    \/ \E t \in DOMAIN threads, s \in {"user", "admin"} : StoreAddMessage(t, s)
    \/ \E u \in Person \ {ADMIN_USER_ID} : StoreBlockUser(ADMIN_USER_ID, u)
    \/ \E u \in Person \ {ADMIN_USER_ID} : StoreUnblockUser(ADMIN_USER_ID, u)

StoreSpec == Init /\ [][StoreNext]_vars

\* ReadSpec: the Database API of StoreSpec together with
\* mark_messages_as_read, which the router never calls.
StoreMarkMessagesAsRead(thread_id, sender_type) ==
    /\ last.id < MaxStoreCalls
    /\ messages' = mark_messages_as_read(messages, thread_id, sender_type)
    /\ last' = Call("mark_messages_as_read", 0, thread_id, sender_type, last.id + 1, None)
    /\ UNCHANGED <<now, threads, blocks, message_mappings, botVars, first_active, lockVars>>

ReadNext ==
    \/ StoreTick
    \/ \E u \in Person, r \in Roles : StoreCreateThread(u, r)
    \/ \E t \in DOMAIN threads, s \in {"user", "admin"} : StoreAddMessage(t, s)
    \/ \E t \in 1..(Len(threads) + 1), s \in {"user", "admin"} :
          StoreMarkMessagesAsRead(t, s)

ReadSpec == Init /\ [][ReadNext]_vars

\* ================================= BlockSpec: the block registry called directly
BlockCall(admin_user_id, blocked_user_id) ==
    /\ blocks' = block_user(blocks, admin_user_id, blocked_user_id)
    /\ last' = Call("block_user", blocked_user_id, admin_user_id, "", 0, None)
    /\ UNCHANGED <<now, threads, messages, message_mappings, botVars, first_active, lockVars>>

UnblockCall(admin_user_id, blocked_user_id) ==
    /\ blocks' = unblock_user(blocks, admin_user_id, blocked_user_id)
    /\ last' = Call("unblock_user", blocked_user_id, admin_user_id, "", 0, None)
    /\ UNCHANGED <<now, threads, messages, message_mappings, botVars, first_active, lockVars>>

BlockNext ==
    \/ \E a \in Person, u \in Person : BlockCall(a, u)
    \/ \E a \in Person, u \in Person : UnblockCall(a, u)

BlockSpec == Init /\ [][BlockNext]_vars

\* ================================================================ the bot
\* Message texts: the body typed, and the thread id of an embedded
\* "Thread #n" marker (0 without one).
Text(marker, body) == [marker |-> marker, body |-> body]

\* The labels of the two reply-keyboard buttons (lines 474 and 520).
BACK == "back"
MAIN_MENU == "main_menu"

\* str.startswith over the texts of the model.
startswith(body, prefix) ==
    <<body, prefix>> \in {<<"/block", "/block">>, <<"/blocks", "/block">>,
                          <<"/blocks", "/blocks">>, <<"/unblock", "/unblock">>}

is_admin_user(user_id) ==
    user_id \in {RoleUser[r] : r \in Roles} \cup {ADMIN_USER_ID}

\* ------------------------------------------------------------ Rate Limiter
RECURSIVE SumCounts(_)
SumCounts(d) ==
    IF DOMAIN d = {} THEN 0
    ELSE LET k == CHOOSE x \in DOMAIN d : TRUE
         IN  d[k] + SumCounts([x \in DOMAIN d \ {k} |-> d[x]])

\* The user's timestamps that check_rate_limit keeps: float(timestamp) > now - 600.
\* The keys are str(now.timestamp()); float(str(x)) = x for a Python float.
PruneCounts(counts, user_id, t) ==
    LET d == IF user_id \in DOMAIN counts THEN counts[user_id] ELSE <<>>
    IN  [ts \in {x \in DOMAIN d : x > t - WINDOW_SECONDS} |-> d[ts]]

\* A mutant of check_rate_limit: the attempt itself is counted in the window.
check_rate_limit_counts_attempt(counts, user_id, t) ==
    LET d == PruneCounts(counts, user_id, t)
    IN  Put(counts, user_id, Put(d, t, (IF t \in DOMAIN d THEN d[t] ELSE 0) + 1))

\* user_message_counts after check_rate_limit (it prunes on every call).
check_rate_limit_counts(counts, user_id, t) ==
    Put(counts, user_id, PruneCounts(counts, user_id, t))

\* A mutant of check_rate_limit: the window entries are never pruned.
check_rate_limit_no_prune(counts, last_message, user_id, t) ==
    /\ SumCounts(IF user_id \in DOMAIN counts THEN counts[user_id] ELSE <<>>)
          < MAX_MESSAGES_PER_10_MINUTES
    /\ user_id \in DOMAIN last_message
          => ~(t - last_message[user_id] < MIN_INTERVAL_SECONDS)

\* What check_rate_limit returns.
check_rate_limit(counts, last_message, user_id, t) ==
    /\ ~(SumCounts(PruneCounts(counts, user_id, t)) >= MAX_MESSAGES_PER_10_MINUTES)
    /\ user_id \in DOMAIN last_message
          => ~(t - last_message[user_id] < MIN_INTERVAL_SECONDS)

\* user_message_counts after update_rate_limit.
update_rate_limit_counts(counts, user_id, t) ==
    LET d == IF user_id \in DOMAIN counts THEN counts[user_id] ELSE <<>>
    IN  Put(counts, user_id, Put(d, t, (IF t \in DOMAIN d THEN d[t] ELSE 0) + 1))

\* ---------------------------------------------------------- Reply Resolver
\* LIKE '%Thread #E%' against a text whose marker is "Thread #T": the decimal
\* digits of E are a prefix of those of T.
RECURSIVE DecimalPrefix(_, _)
DecimalPrefix(e, t) ==
    IF e = t THEN TRUE ELSE IF t < 10 THEN FALSE ELSE DecimalPrefix(e, t \div 10)

TextMatchesThreadPattern(text, e) == text.marker > 0 /\ DecimalPrefix(e, text.marker)

\* The last-resort query of handle_admin_reply (lines 755-765).
LastResort(th, ms, user_id) ==
    LET mine == {i \in DOMAIN ms : ms[i].thread_id \in DOMAIN th
                                   /\ th[ms[i].thread_id].user_id = user_id}
        recent == {i \in mine : Cardinality({j \in mine : j > i}) < 5}
        ids == {ms[i].telegram_message_id : i \in recent}
        hits == {i \in DOMAIN ms : ms[i].telegram_message_id \in ids}
    IN  IF hits = {} THEN None ELSE ms[Max(hits)].thread_id

\* A mutant of DatabaseLookup: the last-resort tier is tried before the
\* text-pattern tier.
DatabaseLookup_last_resort_first(mp, th, ms, e, user_id) ==
    LET adminRows == {i \in DOMAIN ms : ms[i].telegram_message_id = e
                                        /\ ms[i].sender_type = "admin"}
        userRows == {i \in DOMAIN ms : ms[i].telegram_message_id = e
                                       /\ ms[i].sender_type = "user"}
        textRows == {i \in DOMAIN ms : ms[i].sender_type = "admin"
                                       /\ TextMatchesThreadPattern(ms[i].message_text, e)}
    IN  IF e \in DOMAIN mp THEN mp[e]
        ELSE IF adminRows # {} THEN ms[Min(adminRows)].thread_id
        ELSE IF userRows # {} THEN ms[Min(userRows)].thread_id
        ELSE IF LastResort(th, ms, user_id) # None THEN LastResort(th, ms, user_id)
        ELSE IF textRows # {} THEN ms[Max(textRows)].thread_id
        ELSE None

\* The database tiers of handle_admin_reply, first hit wins; None when every
\* tier misses.
DatabaseLookup(mp, th, ms, e, user_id) ==
    LET adminRows == {i \in DOMAIN ms : ms[i].telegram_message_id = e
                                        /\ ms[i].sender_type = "admin"}
        userRows == {i \in DOMAIN ms : ms[i].telegram_message_id = e
                                       /\ ms[i].sender_type = "user"}
        textRows == {i \in DOMAIN ms : ms[i].sender_type = "admin"
                                       /\ TextMatchesThreadPattern(ms[i].message_text, e)}
    IN  IF e \in DOMAIN mp THEN mp[e]
        ELSE IF adminRows # {} THEN ms[Min(adminRows)].thread_id
        ELSE IF userRows # {} THEN ms[Min(userRows)].thread_id
        ELSE IF textRows # {} THEN ms[Max(textRows)].thread_id
        ELSE LastResort(th, ms, user_id)

\* The tiers of handle_admin_reply one by one: what each returns for e, None
\* on a miss.
TierCache(cache, e) == IF Falsy(Get(cache, e)) THEN None ELSE Get(cache, e)

TierMapping(mp, e) == Get(mp, e)

TierRows(ms, e, sender_type) ==
    LET rows == {i \in DOMAIN ms : ms[i].telegram_message_id = e
                                   /\ ms[i].sender_type = sender_type}
    IN  IF rows = {} THEN None ELSE ms[Min(rows)].thread_id

TierText(ms, e) ==
    LET rows == {i \in DOMAIN ms : ms[i].sender_type = "admin"
                                   /\ TextMatchesThreadPattern(ms[i].message_text, e)}
    IN  IF rows = {} THEN None ELSE ms[Max(rows)].thread_id

\* What the six tiers return, in the order the code tries them.
Tiers(cache, mp, th, ms, e, user_id) ==
    <<TierCache(cache, e), TierMapping(mp, e), TierRows(ms, e, "admin"),
      TierRows(ms, e, "user"), TierText(ms, e), LastResort(th, ms, user_id)>>

\* The first hit of a list of tier results, None when all miss.
RECURSIVE FirstHit(_)
FirstHit(results) ==
    IF results = <<>> THEN None
    ELSE IF Head(results) # None THEN Head(results)
    ELSE FirstHit(Tail(results))

\* A mutant of ResolveThread: the message_mappings tier is skipped.
ResolveThread_without_mapping_table(cache, mp, th, ms, e, user_id) ==
    IF ~Falsy(Get(cache, e)) THEN Get(cache, e)
    ELSE DatabaseLookup(<<>>, th, ms, e, user_id)

\* The thread handle_admin_reply routes a reply to e to (lines 711-783).
ResolveThread(cache, mp, th, ms, e, user_id) ==
    IF ~Falsy(Get(cache, e)) THEN Get(cache, e)
    ELSE DatabaseLookup(mp, th, ms, e, user_id)

\* ---------------------------------------------------------------- handlers
\* The state a handler reads and writes, with what it returns (conv_ret, the
\* next conversation state), the thread it worked on (ret) and the notice it
\* showed to the sender.
Snapshot ==
    [threads |-> threads, messages |-> messages, blocks |-> blocks,
     message_mappings |-> message_mappings, user_states |-> user_states,
     message_thread_map |-> message_thread_map,
     user_message_counts |-> user_message_counts,
     user_last_message |-> user_last_message, next_msg_id |-> next_msg_id,
     chat_of |-> chat_of, buttons |-> buttons, sent |-> <<>>,
     forwarded_at |-> forwarded_at, conv_ret |-> END, ret |-> None, notice |-> ""]

Out(S, conv_ret, notice, ret) ==
    [S EXCEPT !.conv_ret = conv_ret, !.notice = notice, !.ret = ret]

Commit(R) ==
    /\ threads' = R.threads
    /\ messages' = R.messages
    /\ blocks' = R.blocks
    /\ message_mappings' = R.message_mappings
    /\ user_states' = R.user_states
    /\ message_thread_map' = R.message_thread_map
    /\ user_message_counts' = R.user_message_counts
    /\ user_last_message' = R.user_last_message
    /\ next_msg_id' = R.next_msg_id
    /\ chat_of' = R.chat_of
    /\ buttons' = R.buttons
    /\ sent' = R.sent
    /\ forwarded_at' = R.forwarded_at
    /\ handled' = handled + 1

\* A message the bot sent and whose id or target the model follows.
Sent(chat_id, kind, thread_id, reply_to, message_id) ==
    [chat_id |-> chat_id, kind |-> kind, thread_id |-> thread_id,
     reply_to |-> reply_to, message_id |-> message_id]

\* A mutant of ForwardNewMessage: the mapping is saved before the send is tried.
ForwardNewMessage_maps_before_send(S, user_id, thread_id, admin_user_id, body, e, t, fwdOk, confirmOk) ==
    LET S0 == [S EXCEPT !.message_mappings = save_message_mapping(@, e, thread_id)]
    IN
    IF ~fwdOk THEN Out(S0, WAITING_FOR_MESSAGE, "send_failed", thread_id)
    ELSE LET S4 == [S0 EXCEPT
                 !.message_thread_map = Put(@, e, thread_id),
                 !.messages = add_message_rows(@, thread_id, e, "admin",
                                               Text(thread_id, body), t),
                 !.threads = add_message_threads(@, thread_id, t),
                 !.next_msg_id = e + 1,
                 !.chat_of = Put(@, e, admin_user_id),
                 !.buttons = @ \cup {<<"block", admin_user_id, user_id>>},
                 !.sent = Append(@, Sent(admin_user_id, "forward", thread_id, None, e)),
                 !.forwarded_at = [@ EXCEPT ![user_id] =
                                      Append(@, [at |-> t, recorded |-> confirmOk])]]
         IN  IF confirmOk
             THEN Out([S4 EXCEPT
                          !.user_message_counts = update_rate_limit_counts(@, user_id, t),
                          !.user_last_message = Put(@, user_id, t)],
                      WAITING_FOR_MESSAGE, "sent", thread_id)
             ELSE Out(S4, WAITING_FOR_MESSAGE, "send_failed", thread_id)

\* A mutant of ForwardNewMessage: the forwarded copy's id is put in the cache
\* but not saved to message_mappings.
ForwardNewMessage_cache_only(S, user_id, thread_id, admin_user_id, body, e, t, fwdOk, confirmOk) ==
    IF ~fwdOk THEN Out(S, WAITING_FOR_MESSAGE, "send_failed", thread_id)
    ELSE LET S4 == [S EXCEPT
                 !.message_thread_map = Put(@, e, thread_id),
                 !.messages = add_message_rows(@, thread_id, e, "admin",
                                               Text(thread_id, body), t),
                 !.threads = add_message_threads(@, thread_id, t),
                 !.next_msg_id = e + 1,
                 !.chat_of = Put(@, e, admin_user_id),
                 !.buttons = @ \cup {<<"block", admin_user_id, user_id>>},
                 !.sent = Append(@, Sent(admin_user_id, "forward", thread_id, None, e)),
                 !.forwarded_at = [@ EXCEPT ![user_id] =
                                      Append(@, [at |-> t, recorded |-> confirmOk])]]
         IN  IF confirmOk
             THEN Out([S4 EXCEPT
                          !.user_message_counts = update_rate_limit_counts(@, user_id, t),
                          !.user_last_message = Put(@, user_id, t)],
                      WAITING_FOR_MESSAGE, "sent", thread_id)
             ELSE Out(S4, WAITING_FOR_MESSAGE, "send_failed", thread_id)

\* handle_message, lines 595-643: the forward to the responder and what
\* follows it. e is the id the gateway gives the forwarded copy.
ForwardNewMessage(S, user_id, thread_id, admin_user_id, body, e, t, fwdOk, confirmOk) ==
    IF ~fwdOk THEN Out(S, WAITING_FOR_MESSAGE, "send_failed", thread_id)
    ELSE LET S4 == [S EXCEPT
                 !.message_thread_map = Put(@, e, thread_id),
                 !.messages = add_message_rows(@, thread_id, e, "admin",
                                               Text(thread_id, body), t),
                 !.threads = add_message_threads(@, thread_id, t),
                 !.message_mappings = save_message_mapping(@, e, thread_id),
                 !.next_msg_id = e + 1,
                 !.chat_of = Put(@, e, admin_user_id),
                 !.buttons = @ \cup {<<"block", admin_user_id, user_id>>},
                 !.sent = Append(@, Sent(admin_user_id, "forward", thread_id, None, e)),
                 !.forwarded_at = [@ EXCEPT ![user_id] =
                                      Append(@, [at |-> t, recorded |-> confirmOk])]]
         IN  IF confirmOk
             THEN Out([S4 EXCEPT
                          !.user_message_counts = update_rate_limit_counts(@, user_id, t),
                          !.user_last_message = Put(@, user_id, t)],
                      WAITING_FOR_MESSAGE, "sent", thread_id)
             ELSE Out(S4, WAITING_FOR_MESSAGE, "send_failed", thread_id)

\* handle_message, lines 439-645. id is the inbound message's id.
handle_message(S, user_id, body, id, t, fwdOk, confirmOk) ==
    IF user_id \notin DOMAIN S.user_states
    THEN Out(S, CHOOSING_ROLE, "select_role_first", None)
    ELSE
    LET S1 == [S EXCEPT !.user_message_counts = check_rate_limit_counts(@, user_id, t)]
    IN  IF ~check_rate_limit(S.user_message_counts, S.user_last_message, user_id, t)
        THEN Out(S1, WAITING_FOR_MESSAGE, "rate_limited", None)
        ELSE
        LET role_id == S.user_states[user_id].selected_role
            creating == Falsy(S.user_states[user_id].thread_id)
            thread_id == IF creating THEN create_thread_ret(S.threads, user_id, role_id)
                         ELSE S.user_states[user_id].thread_id
            S2 == IF creating
                  THEN [S1 EXCEPT
                           !.threads = create_thread_rows(@, user_id, role_id, t),
                           !.user_states = [@ EXCEPT ![user_id].thread_id = thread_id]]
                  ELSE S1
        IN  IF body \in {BACK, MAIN_MENU}
            THEN Out(S2, CHOOSING_ROLE, "menu", thread_id)
            ELSE
            LET S3 == [S2 EXCEPT
                          !.messages = add_message_rows(@, thread_id, id, "user",
                                                        Text(0, body), t),
                          !.threads = add_message_threads(@, thread_id, t)]
            IN  IF is_user_blocked(S.blocks, RoleUser[role_id], user_id)
                THEN Out(S3, WAITING_FOR_MESSAGE, "blocked", thread_id)
                ELSE ForwardNewMessage(S3, user_id, thread_id, RoleUser[role_id],
                                       body, id + 1, t, fwdOk, confirmOk)

\* handle_role_selection, lines 368-437: data "role_<role_id>".
\* A mutant of handle_role_selection: the active thread is not looked up.
select_role_forgets_thread(S, user_id, role_id) ==
    IF is_user_blocked(S.blocks, RoleUser[role_id], user_id)
    THEN Out(S, CHOOSING_ROLE, "blocked", None)
    ELSE LET found == get_active_thread(S.threads, user_id, role_id)
         IN  {Out([S EXCEPT
                      !.user_states = Put(@, user_id,
                          [selected_role |-> role_id, thread_id |-> None]),
                      !.buttons = @ \cup {<<"send", user_id, user_id>>}],
                  CHOOSING_ROLE, "selected", tid) : tid \in found}

\* A mutant of handle_role_selection: the selection is stored before the
\* block check.
select_role_stores_before_check(S, user_id, role_id) ==
    IF is_user_blocked(S.blocks, RoleUser[role_id], user_id)
    THEN Out([S EXCEPT !.user_states = Put(@, user_id,
                          [selected_role |-> role_id, thread_id |-> None])],
             CHOOSING_ROLE, "blocked", None)
    ELSE LET found == get_active_thread(S.threads, user_id, role_id)
         IN  {Out([S EXCEPT
                      !.user_states = Put(@, user_id,
                          [selected_role |-> role_id,
                           thread_id |-> IF Falsy(tid) THEN None ELSE tid]),
                      !.buttons = @ \cup {<<"send", user_id, user_id>>}],
                  CHOOSING_ROLE, "selected", tid) : tid \in found}

select_role(S, user_id, role_id) ==
    IF is_user_blocked(S.blocks, RoleUser[role_id], user_id)
    THEN Out(S, CHOOSING_ROLE, "blocked", None)
    ELSE LET found == get_active_thread(S.threads, user_id, role_id)
         IN  {Out([S EXCEPT
                      !.user_states = Put(@, user_id,
                          [selected_role |-> role_id,
                           thread_id |-> IF Falsy(tid) THEN None ELSE tid]),
                      !.buttons = @ \cup {<<"send", user_id, user_id>>}],
                  CHOOSING_ROLE, "selected", tid) : tid \in found}

\* The telegram_message_id of the last row of the thread with the sender type
\* (lines 906-924), or None.
LastMessageOf(ms, thread_id, sender_type) ==
    LET rows == {i \in DOMAIN ms : ms[i].thread_id = thread_id
                                   /\ ms[i].sender_type = sender_type}
    IN  IF rows = {} THEN None ELSE ms[Max(rows)].telegram_message_id

\* handle_admin_reply, lines 864-1052: persist the reply and forward it.
ForwardReply(S, user_id, thread_id, body, id, t, fwdOk) ==
    LET is_admin == is_admin_user(user_id)
        student_user_id == S.threads[thread_id].user_id
        admin_user_id == RoleUser[S.threads[thread_id].role_id]
        target_user_id == IF is_admin THEN student_user_id ELSE admin_user_id
        S1 == [S EXCEPT
                  !.messages = add_message_rows(@, thread_id, id,
                                   IF is_admin THEN "admin" ELSE "user", Text(0, body), t),
                  !.threads = add_message_threads(@, thread_id, t)]
        reply_to == LastMessageOf(S1.messages, thread_id,
                                  IF is_admin THEN "user" ELSE "admin")
        e == id + 1
    IN  IF ~fwdOk THEN Out(S1, END, "send_failed", thread_id)
        ELSE Out([S1 EXCEPT
                     !.message_mappings = save_message_mapping(@, e, thread_id),
                     !.next_msg_id = e + 1,
                     !.chat_of = Put(@, e, target_user_id),
                     !.buttons = IF is_admin THEN @
                                 ELSE @ \cup {<<"block", admin_user_id, student_user_id>>},
                     !.sent = Append(@, Sent(target_user_id, "reply", thread_id, reply_to, e))],
                 END, "reply_sent", thread_id)

\* handle_admin_reply, lines 682-1052. e is the id of the message replied to.
handle_admin_reply(S, user_id, e, body, id, t, fwdOk) ==
    LET cached == Get(S.message_thread_map, e)
        thread_id == ResolveThread(S.message_thread_map, S.message_mappings,
                                   S.threads, S.messages, e, user_id)
        S1 == IF Falsy(cached) /\ thread_id # None
              THEN [S EXCEPT !.message_thread_map = Put(@, e, thread_id)]
              ELSE S
    IN  IF thread_id = None THEN Out(S, END, "not_found", None)
        ELSE IF thread_id \notin DOMAIN S.threads THEN Out(S1, END, "", thread_id)
        ELSE
        LET student_user_id == S.threads[thread_id].user_id
            admin_user_id == RoleUser[S.threads[thread_id].role_id]
        IN  IF is_admin_user(user_id)
            THEN IF is_user_blocked(S.blocks, user_id, student_user_id)
                 THEN Out(S1, END, "blocked_by_you", thread_id)
                 ELSE IF startswith(body, "/block")
                 THEN Out([S1 EXCEPT !.blocks = block_user(@, user_id, student_user_id)],
                          END, "user_blocked", thread_id)
                 ELSE IF startswith(body, "/unblock")
                 THEN Out([S1 EXCEPT !.blocks = unblock_user(@, user_id, student_user_id)],
                          END, "user_unblocked", thread_id)
                 ELSE IF startswith(body, "/blocks")
                 THEN Out(S1, END, "blocks_listed", thread_id)
                 ELSE ForwardReply(S1, user_id, thread_id, body, id, t, fwdOk)
            ELSE IF is_user_blocked(S.blocks, admin_user_id, user_id)
                 THEN Out(S1, END, "blocked", thread_id)
                 ELSE ForwardReply(S1, user_id, thread_id, body, id, t, fwdOk)

\* handle_admin_message, lines 1161-1242: "/reply <thread_id> <text>".
handle_admin_message(S, user_id, thread_id, id, t, fwdOk) ==
    IF thread_id \notin DOMAIN S.threads THEN Out(S, END, "thread_not_found", None)
    ELSE IF ~fwdOk THEN Out(S, END, "send_failed", thread_id)
    ELSE Out([S EXCEPT
                 !.sent = Append(@, Sent(S.threads[thread_id].user_id, "command_reply",
                                         thread_id, None, None)),
                 !.messages = add_message_rows(@, thread_id, id, "admin",
                                               Text(0, "hello"), t),
                 !.threads = add_message_threads(@, thread_id, t),
                 !.message_mappings = save_message_mapping(@, id, thread_id)],
             END, "reply_sent", thread_id)

\* ------------------------------------------------------- updates (run())
\* The gateway gives the inbound message the next id, in the sender's chat.
\* Of the messages the bot sends, the forwarded copies and the role menu are
\* given ids; its notices and confirmations are not followed.
Inbound(user_id) ==
    [Snapshot EXCEPT !.next_msg_id = next_msg_id + 1,
                     !.chat_of = Put(@, next_msg_id, user_id)]

\* /start: an entry point, and a handler of CHOOSING_ROLE.
Start(user_id) ==
    /\ conv[user_id] \in {END, CHOOSING_ROLE}
    /\ Commit([Inbound(user_id) EXCEPT
                  !.next_msg_id = @ + 1,
                  !.chat_of = Put(@, next_msg_id + 1, user_id)])
    /\ conv' = [conv EXCEPT ![user_id] = CHOOSING_ROLE]
    /\ last' = Event("start", user_id, 0, "/start", next_msg_id, None, "menu")
    /\ UNCHANGED <<now, first_active, lockVars>>

\* /cancel: a handler of WAITING_FOR_MESSAGE and the fallback.
Cancel(user_id) ==
    /\ conv[user_id] \in {CHOOSING_ROLE, WAITING_FOR_MESSAGE}
    /\ Commit([Inbound(user_id) EXCEPT
                  !.user_states = [x \in DOMAIN @ \ {user_id} |-> @[x]]])
    /\ conv' = [conv EXCEPT ![user_id] = CHOOSING_ROLE]
    /\ last' = Event("cancel", user_id, 0, "/cancel", next_msg_id, None, "menu")
    /\ UNCHANGED <<now, first_active, lockVars>>

\* A press of a role button of the menu.
SelectRole(user_id, role_id) ==
    /\ conv[user_id] \in {CHOOSING_ROLE, WAITING_FOR_MESSAGE}
    /\ LET rs == select_role(Snapshot, user_id, role_id)
       IN  \E R \in (IF is_user_blocked(blocks, RoleUser[role_id], user_id)
                     THEN {rs} ELSE rs) :
              /\ Commit(R)
              /\ conv' = [conv EXCEPT ![user_id] = R.conv_ret]
              /\ last' = Event("select_role", user_id, role_id, "", 0, R.ret, R.notice)
              /\ first_active' = IF R.notice = "selected"
                                 THEN NoteActive(user_id, role_id, R.ret, handled + 1)
                                 ELSE first_active
    /\ UNCHANGED <<now, lockVars>>

\* A press of the "send_message" button shown after a selection.
PressSendMessage(user_id) ==
    /\ conv[user_id] \in {CHOOSING_ROLE, WAITING_FOR_MESSAGE}
    /\ <<"send", user_id, user_id>> \in buttons
    /\ Commit(Snapshot)
    /\ conv' = [conv EXCEPT ![user_id] = WAITING_FOR_MESSAGE]
    /\ last' = Event("send_message", user_id, 0, "", 0, None, "type_message")
    /\ UNCHANGED <<now, first_active, lockVars>>

\* A press of the block or unblock button under a forwarded message: handled
\* in group 0, and again by the conversation handler when the admin is in a
\* conversation (the second run changes nothing but the conversation state).
PressBlock(admin_user_id, blocked_user_id, block) ==
    /\ <<"block", admin_user_id, blocked_user_id>> \in buttons
    /\ is_admin_user(admin_user_id)
    /\ Commit([Snapshot EXCEPT
                  !.blocks = IF block THEN block_user(@, admin_user_id, blocked_user_id)
                             ELSE unblock_user(@, admin_user_id, blocked_user_id)])
    /\ conv' = [conv EXCEPT ![admin_user_id] = IF @ = END THEN END ELSE CHOOSING_ROLE]
    /\ last' = Event(IF block THEN "block_button" ELSE "unblock_button",
                     admin_user_id, blocked_user_id, "", 0, None, "")
    /\ UNCHANGED <<now, first_active, lockVars>>

\* A text that is neither a reply nor a command, in WAITING_FOR_MESSAGE.
HandleMessage(user_id, body, fwdOk, confirmOk) ==
    /\ conv[user_id] = WAITING_FOR_MESSAGE
    /\ LET R == handle_message(Inbound(user_id), user_id, body, next_msg_id, now,
                               fwdOk, confirmOk)
       IN  /\ Commit(R)
           /\ conv' = [conv EXCEPT ![user_id] = R.conv_ret]
           /\ last' = Event("handle_message", user_id,
                            IF user_id \in DOMAIN user_states
                            THEN user_states[user_id].selected_role ELSE 0,
                            body, next_msg_id, R.ret, R.notice)
    /\ UNCHANGED <<now, first_active, lockVars>>

\* A mutant of HandleAdminReply: a thread found in the database is used but
\* not put in the cache.
HandleAdminReply_without_backfill(user_id, e, body, fwdOk) ==
    /\ e \in DOMAIN chat_of
    /\ chat_of[e] = user_id
    /\ LET R == handle_admin_reply(Inbound(user_id), user_id, e, body, next_msg_id,
                                   now, fwdOk)
       IN  /\ Commit([R EXCEPT !.message_thread_map = message_thread_map])
           /\ last' = Event("handle_admin_reply", user_id, e, body, next_msg_id,
                            R.ret, R.notice)
    /\ UNCHANGED <<now, conv, first_active, lockVars>>

\* A mutant of HandleAdminReply: the cache is backfilled with the lookup's
\* result before the result is tested.
HandleAdminReply_caches_any_result(user_id, e, body, fwdOk) ==
    /\ e \in DOMAIN chat_of
    /\ chat_of[e] = user_id
    /\ LET R == handle_admin_reply(Inbound(user_id), user_id, e, body, next_msg_id,
                                   now, fwdOk)
       IN  /\ Commit([R EXCEPT !.message_thread_map = Put(@, e, R.ret)])
           /\ last' = Event("handle_admin_reply", user_id, e, body, next_msg_id,
                            R.ret, R.notice)
    /\ UNCHANGED <<now, conv, first_active, lockVars>>

\* A text sent as a reply to message e of the sender's chat (group 0).
HandleAdminReply(user_id, e, body, fwdOk) ==
    /\ e \in DOMAIN chat_of
    /\ chat_of[e] = user_id
    /\ LET R == handle_admin_reply(Inbound(user_id), user_id, e, body, next_msg_id,
                                   now, fwdOk)
       IN  /\ Commit(R)
           /\ last' = Event("handle_admin_reply", user_id, e, body, next_msg_id,
                            R.ret, R.notice)
    /\ UNCHANGED <<now, conv, first_active, lockVars>>

\* The text "/cancel" sent as a reply to message e of the sender's chat: the
\* reply handler of group 0 takes it (filters.TEXT & filters.REPLY), and the
\* conversation handler of group 2 runs cancel when the sender is in a
\* conversation, where CommandHandler('cancel') is a state handler or the
\* fallback.
HandleReplyCancel(user_id, e, fwdOk) ==
    /\ e \in DOMAIN chat_of
    /\ chat_of[e] = user_id
    /\ LET R == handle_admin_reply(Inbound(user_id), user_id, e, "/cancel", next_msg_id,
                                   now, fwdOk)
           cancels == conv[user_id] \in {CHOOSING_ROLE, WAITING_FOR_MESSAGE}
       IN  /\ Commit(IF cancels
                     THEN [R EXCEPT !.user_states = [x \in DOMAIN @ \ {user_id} |-> @[x]]]
                     ELSE R)
           /\ conv' = [conv EXCEPT ![user_id] = IF cancels THEN CHOOSING_ROLE ELSE @]
           /\ last' = Event("reply_cancel", user_id, e, "/cancel", next_msg_id,
                            R.ret, R.notice)
    /\ UNCHANGED <<now, first_active, lockVars>>

\* "/reply <thread_id> <text>" from an admin (group 1).
HandleAdminMessage(user_id, thread_id, fwdOk) ==
    /\ is_admin_user(user_id)
    /\ LET R == handle_admin_message(Inbound(user_id), user_id, thread_id,
                                     next_msg_id, now, fwdOk)
       IN  /\ Commit(R)
           /\ last' = Event("handle_admin_message", user_id, thread_id, "/reply",
                            next_msg_id, R.ret, R.notice)
    /\ UNCHANGED <<now, conv, first_active, lockVars>>

\* The process ends and a new one starts: __init__ on the same database.
Restart ==
    /\ user_states' = <<>>
    /\ conv' = [u \in Person |-> END]
    /\ message_thread_map' = message_mappings
    /\ user_message_counts' = <<>>
    /\ user_last_message' = <<>>
    /\ sent' = <<>>
    /\ handled' = handled + 1
    /\ last' = Event("restart", 0, 0, "", 0, None, "")
    /\ UNCHANGED <<now, storeVars, next_msg_id, chat_of, buttons, forwarded_at,
                   first_active, lockVars>>

BotTick ==
    /\ now < MaxBotTime
    /\ now' = now + MIN_INTERVAL_SECONDS
    /\ UNCHANGED <<storeVars, botVars, first_active, last, lockVars>>

\* A run handles at most MaxUpdates updates.
Next ==
    \/ BotTick
    \/ handled < MaxUpdates /\ Restart
    \/ \E u \in Senders : handled < MaxUpdates /\ Start(u)
    \/ \E u \in Senders : handled < MaxUpdates /\ Cancel(u)
    \/ \E u \in Senders, r \in Roles : handled < MaxUpdates /\ SelectRole(u, r)
    \/ \E u \in Senders : handled < MaxUpdates /\ PressSendMessage(u)
    \/ \E a \in Person, u \in Person, b \in BOOLEAN :
          handled < MaxUpdates /\ PressBlock(a, u, b)
    \/ \E u \in Senders, body \in {"hello", BACK, MAIN_MENU}, f \in BOOLEAN, c \in BOOLEAN :
          handled < MaxUpdates /\ HandleMessage(u, body, f, c)
    \/ \E u \in Person, e \in DOMAIN chat_of,
          body \in {"hello", "/block", "/unblock", "/blocks"}, f \in BOOLEAN :
          handled < MaxUpdates /\ HandleAdminReply(u, e, body, f)
    \/ \E u \in Senders, e \in DOMAIN chat_of, f \in BOOLEAN :
          handled < MaxUpdates /\ HandleReplyCancel(u, e, f)
    \/ \E a \in Person, t \in 1..(Len(threads) + 1), f \in BOOLEAN :
          handled < MaxUpdates /\ HandleAdminMessage(a, t, f)

Spec == Init /\ [][Next]_vars

\* ============================ RateSpec: one user writing to one responder
\* The instants at which the clock stops: the spacing of 10 s, a full window
\* of accepted messages, and both sides of the end of the first window.
RateInstants == {0, 10, 20, 30, 40, 50, 599, 601}

RateTick ==
    /\ \E t \in RateInstants : t > now
    /\ now' = Min({t \in RateInstants : t > now})
    /\ UNCHANGED <<storeVars, botVars, first_active, last, lockVars>>

\* The user opens the conversation once and then only writes. The forward
\* always succeeds; the confirmation to the user may fail. A run handles at
\* most MaxRateUpdates updates.
RateNext ==
    \/ RateTick
    \/ handled < MaxRateUpdates /\ conv[Student] = END /\ Start(Student)
    \/ handled < MaxRateUpdates /\ user_states = <<>> /\ SelectRole(Student, 1)
    \/ handled < MaxRateUpdates /\ conv[Student] = CHOOSING_ROLE /\ PressSendMessage(Student)
    \/ \E c \in BOOLEAN : handled < MaxRateUpdates /\ HandleMessage(Student, "hello", TRUE, c)

RateSpec == Init /\ [][RateNext]_vars

\* ============================== LockSpec: the single-instance guard
\* What the guard does not touch: the database and the router's state.
routerVars == <<now, storeVars, botVars, first_active, last>>

\* The process holds an exclusive flock on some file.
HoldsLock(p) == \E i \in DOMAIN flock : flock[i] = p

\* python enhanced_bot.py: main() calls run().
StartDirect(p) ==
    /\ proc[p].pc = "idle"
    /\ proc' = [proc EXCEPT ![p].pc = "run"]
    /\ UNCHANGED <<lock_path, flock, routerVars>>

\* python start_bot_fixed.py: start_bot() up to the removal of the lock file.
StartScript(p) ==
    /\ proc[p].pc = "idle"
    /\ proc' = [proc EXCEPT ![p].pc = "script"]
    /\ UNCHANGED <<lock_path, flock, routerVars>>

\* start_bot(), lines 71-78: os.remove(bot.lock) when it exists, then run().
ScriptRemoveLock(p) ==
    /\ proc[p].pc = "script"
    /\ lock_path' = NoFile
    /\ proc' = [proc EXCEPT ![p].pc = "run"]
    /\ UNCHANGED <<flock, routerVars>>

\* acquire_lock: open(lock_file_path, 'w') opens the file the name refers to,
\* or creates one.
OpenLockFile(p) ==
    /\ proc[p].pc = "run"
    /\ IF lock_path = NoFile
       THEN /\ flock' = Append(flock, NoProc)
            /\ lock_path' = Len(flock) + 1
            /\ proc' = [proc EXCEPT ![p].pc = "opened", ![p].fd = Len(flock) + 1]
       ELSE /\ proc' = [proc EXCEPT ![p].pc = "opened", ![p].fd = lock_path]
            /\ UNCHANGED <<lock_path, flock>>
    /\ UNCHANGED routerVars

\* acquire_lock: flock(LOCK_EX | LOCK_NB) on the opened file. On failure the
\* file is closed, acquire_lock returns False and run() calls sys.exit(1).
FlockLockFile(p) ==
    /\ proc[p].pc = "opened"
    /\ IF flock[proc[p].fd] = NoProc
       THEN /\ flock' = [flock EXCEPT ![proc[p].fd] = p]
            /\ proc' = [proc EXCEPT ![p].pc = "locked"]
       ELSE /\ proc' = [proc EXCEPT ![p].pc = "done", ![p].fd = NoFile,
                                    ![p].cause = "lock_failed"]
            /\ UNCHANGED flock
    /\ UNCHANGED <<lock_path, routerVars>>

\* run(): the configuration is valid, the handlers are registered and
\* run_polling starts to handle the inbound stream.
StartPolling(p) ==
    /\ proc[p].pc = "locked"
    /\ proc' = [proc EXCEPT ![p].pc = "polling"]
    /\ UNCHANGED <<lock_path, flock, routerVars>>

\* The ways the try block of run() ends before polling and during it.
ExitCauses(pc) ==
    IF pc = "locked" THEN {"config_error", "exception"}
    ELSE IF pc = "polling" THEN {"exception", "keyboard_interrupt", "return"}
    ELSE {}

\* A mutant of ExitRun: the return after a configuration error leaves run()
\* without the finally clause.
ExitRun_return_skips_finally(p, cause) ==
    /\ cause \in ExitCauses(proc[p].pc)
    /\ proc' = [proc EXCEPT ![p].pc = IF cause = "config_error" THEN "done"
                                      ELSE "finally",
                            ![p].cause = cause]
    /\ UNCHANGED <<lock_path, flock, routerVars>>

\* run(): the try block ends (return after a configuration error, an
\* exception, KeyboardInterrupt, or run_polling returning after a stop
\* signal) and the finally clause is entered.
ExitRun(p, cause) ==
    /\ cause \in ExitCauses(proc[p].pc)
    /\ proc' = [proc EXCEPT ![p].pc = "finally", ![p].cause = cause]
    /\ UNCHANGED <<lock_path, flock, routerVars>>

\* release_lock: flock(LOCK_UN).
ReleaseUnlock(p) ==
    /\ proc[p].pc = "finally"
    /\ flock' = [flock EXCEPT ![proc[p].fd] = NoProc]
    /\ proc' = [proc EXCEPT ![p].pc = "unlocked"]
    /\ UNCHANGED <<lock_path, routerVars>>

\* release_lock: lock_file.close().
ReleaseClose(p) ==
    /\ proc[p].pc = "unlocked"
    /\ proc' = [proc EXCEPT ![p].pc = "closed", ![p].fd = NoFile]
    /\ UNCHANGED <<lock_path, flock, routerVars>>

\* release_lock: os.unlink(lock_file_path) removes whatever the name refers
\* to (an OSError for a missing file is caught); lock_file = None.
ReleaseUnlink(p) ==
    /\ proc[p].pc = "closed"
    /\ lock_path' = NoFile
    /\ proc' = [proc EXCEPT ![p].pc = "done"]
    /\ UNCHANGED <<flock, routerVars>>

LockNext ==
    \/ \E p \in Procs : StartDirect(p)
    \/ \E p \in Procs : StartScript(p)
    \/ \E p \in Procs : ScriptRemoveLock(p)
    \/ \E p \in Procs : OpenLockFile(p)
    \/ \E p \in Procs : FlockLockFile(p)
    \/ \E p \in Procs : StartPolling(p)
    \/ \E p \in Procs, cause \in {"config_error", "exception", "keyboard_interrupt", "return"} :
          ExitRun(p, cause)
    \/ \E p \in Procs : ReleaseUnlock(p)
    \/ \E p \in Procs : ReleaseClose(p)
    \/ \E p \in Procs : ReleaseUnlink(p)

LockSpec == Init /\ [][LockNext]_vars

\* A process that has entered release_lock runs it to its end.
LockLiveSpec ==
    /\ LockSpec
    /\ \A p \in Procs : WF_vars(ReleaseUnlock(p) \/ ReleaseClose(p) \/ ReleaseUnlink(p))

\* =================== ResolveSpec: one user, two responders, and replies
\* The user opens the conversation once, writes to either responder and
\* replies to messages of the chat; every send succeeds. A run handles at most
\* MaxResolveUpdates updates; the clock stops at MaxResolveTime.
ResolveTick ==
    /\ now < MaxResolveTime
    /\ now' = now + MIN_INTERVAL_SECONDS
    /\ UNCHANGED <<storeVars, botVars, first_active, last, lockVars>>

ResolveNext ==
    \/ ResolveTick
    \/ handled < MaxResolveUpdates /\ conv[Student] = END /\ Start(Student)
    \/ \E r \in Roles : handled < MaxResolveUpdates /\ SelectRole(Student, r)
    \/ handled < MaxResolveUpdates /\ conv[Student] = CHOOSING_ROLE /\ PressSendMessage(Student)
    \/ \E body \in {"hello", BACK} :
          handled < MaxResolveUpdates /\ HandleMessage(Student, body, TRUE, TRUE)
    \/ \E e \in DOMAIN chat_of :
          handled < MaxResolveUpdates /\ HandleAdminReply(Student, e, "hello", TRUE)

ResolveSpec == Init /\ [][ResolveNext]_vars

\* ============ PeerSpec: a responder identity writing to another responder
\* The holder of role 2 opens a conversation with the holder of role 1 like
\* any user; both reply to the messages of their chats.
Peer == RoleUser[2]

PeerNext ==
    \/ ResolveTick
    \/ handled < MaxPeerUpdates /\ conv[Peer] = END /\ Start(Peer)
    \/ handled < MaxPeerUpdates /\ user_states = <<>> /\ SelectRole(Peer, 1)
    \/ handled < MaxPeerUpdates /\ conv[Peer] = CHOOSING_ROLE /\ PressSendMessage(Peer)
    \/ handled < MaxPeerUpdates /\ HandleMessage(Peer, "hello", TRUE, TRUE)
    \/ \E u \in {RoleUser[1], Peer}, e \in DOMAIN chat_of, f \in BOOLEAN :
          handled < MaxPeerUpdates /\ HandleAdminReply(u, e, "hello", f)

PeerSpec == Init /\ [][PeerNext]_vars

\* ============================ CapSpec: one user writing to two responders
\* The user opens the conversation once, selects either role at any time and
\* writes; every forward and every confirmation succeeds. The clock advances
\* by the minimum spacing, so a window fills with accepted messages.
CapTick ==
    /\ now < MaxCapTime
    /\ now' = now + MIN_INTERVAL_SECONDS
    /\ UNCHANGED <<storeVars, botVars, first_active, last, lockVars>>

CapNext ==
    \/ CapTick
    \/ handled < MaxCapUpdates /\ conv[Student] = END /\ Start(Student)
    \/ \E r \in Roles : handled < MaxCapUpdates /\ SelectRole(Student, r)
    \/ handled < MaxCapUpdates /\ conv[Student] = CHOOSING_ROLE /\ PressSendMessage(Student)
    \/ handled < MaxCapUpdates /\ HandleMessage(Student, "hello", TRUE, TRUE)

CapSpec == Init /\ [][CapNext]_vars

\* ================================================================= claims
\* C1 (StoreSpec): create_thread called twice consecutively for the same
\* (user, role) pair returns the same thread id both times, and that id is the
\* id of the single thread row stored for the pair.
C1_ConsecutiveCreateSameId ==
    [][(/\ last.op = "create_thread"
        /\ last'.op = "create_thread"
        /\ last'.id = last.id + 1
        /\ last'.user = last.user
        /\ last'.arg = last.arg)
       => /\ last'.ret = last.ret
          /\ PairThreads(threads', last'.user, last'.arg) = {last'.ret}]_vars

\* C2 (StoreSpec): the threads table holds at most one row per (user, role)
\* pair, whatever calls of the store were made.
C2_OneThreadPerPair ==
    \A u \in Person, r \in Roles : Cardinality(PairThreads(threads, u, r)) <= 1

\* create_thread has just run for a pair that had a row already.
C2_Witness ==
    /\ last.op = "create_thread"
    /\ last.ret = NoRowId
    /\ Cardinality(PairThreads(threads, last.user, last.arg)) = 1
    /\ Len(threads) = 2

\* C3 (StoreSpec): once get_active_thread has returned a thread id T for a
\* pair, every later call for the same pair returns T.
C3_ActiveThreadStable ==
    (/\ last.op = "get_active_thread"
     /\ first_active[<<last.user, last.arg>>].thread_id # None)
    => last.ret = first_active[<<last.user, last.arg>>].thread_id

\* A later call for a pair, after a message was added and another thread made.
C3_Witness ==
    /\ last.op = "get_active_thread"
    /\ first_active[<<last.user, last.arg>>].thread_id # None
    /\ first_active[<<last.user, last.arg>>].at < last.id
    /\ last.ret = first_active[<<last.user, last.arg>>].thread_id
    /\ Len(threads) = 2

\* C7 (BlockSpec): block_user(A, U) and unblock_user(A, U) leave
\* is_user_blocked(B, U') unchanged for every pair (B, U') other than (A, U).
C7_BlockFrame ==
    [][\A b \in Person, u \in Person :
          (/\ last'.op \in {"block_user", "unblock_user"}
           /\ <<b, u>> # <<last'.arg, last'.user>>)
          => (is_user_blocked(blocks', b, u) <=> is_user_blocked(blocks, b, u))]_vars

\* Responder 1 has just blocked the student whom responder 2 had blocked.
C7_Witness ==
    /\ last.op = "block_user"
    /\ last.arg = RoleUser[1]
    /\ last.user = Student
    /\ is_user_blocked(blocks, RoleUser[1], Student)
    /\ is_user_blocked(blocks, RoleUser[2], Student)

\* C4 (Spec): if a mapping E -> T has been saved, a reply referencing E
\* resolves to T with the cache as it is (warm) and with an empty cache (cold),
\* whoever replies; and the reply just handled was routed to T.
C4_MappedReplyResolves ==
    /\ \A e \in DOMAIN message_mappings, s \in Person :
          /\ ResolveThread(message_thread_map, message_mappings, threads, messages, e, s)
                = message_mappings[e]
          /\ ResolveThread(<<>>, message_mappings, threads, messages, e, s)
                = message_mappings[e]
    /\ (last.op = "handle_admin_reply" /\ last.arg \in DOMAIN message_mappings)
          => last.ret = message_mappings[last.arg]

\* A reply to a forwarded reply, whose id is in the mapping table only (no
\* message row carries it), has been routed to the mapped thread.
C4_Witness ==
    /\ last.op = "handle_admin_reply"
    /\ last.arg \in DOMAIN message_mappings
    /\ \A i \in DOMAIN messages : messages[i].telegram_message_id # last.arg
    /\ last.ret = message_mappings[last.arg]
    /\ last.notice = "reply_sent"

\* C5 (Spec): while the blocks table holds (A, U), an update from U, a new
\* message or a reply of a user, delivers nothing to A, writes no admin-typed
\* row and no mapping for a thread of A, and when the update is addressed to A
\* and reaches the block check U is shown the block notice, never the
\* send-failure notice.
C5_BlockedUserRejected ==
    [][\A a \in Person :
          LET u == last'.user
              target == IF last'.op = "handle_message"
                        THEN IF u \in DOMAIN user_states
                             THEN RoleUser[user_states[u].selected_role] ELSE None
                        ELSE IF last'.ret \in DOMAIN threads
                             THEN RoleUser[threads[last'.ret].role_id] ELSE None
              ofA(t) == t \in DOMAIN threads' /\ RoleUser[threads'[t].role_id] = a
          IN  (/\ handled' = handled + 1
               /\ \/ last'.op = "handle_message"
                  \/ last'.op = "handle_admin_reply" /\ ~is_admin_user(u)
               /\ [admin_user_id |-> a, blocked_user_id |-> u] \in blocks)
              => /\ \A i \in DOMAIN sent' : sent'[i].chat_id # a
                 /\ \A i \in DOMAIN messages' \ DOMAIN messages :
                       messages'[i].sender_type = "admin" => ~ofA(messages'[i].thread_id)
                 /\ \A e \in DOMAIN message_mappings' \ DOMAIN message_mappings :
                       ~ofA(message_mappings'[e])
                 /\ target = a
                       => /\ last'.notice \in {"blocked", "rate_limited", "menu"}
                          /\ last'.op = "handle_admin_reply" => last'.notice = "blocked"
                          /\ (/\ last'.op = "handle_message"
                              /\ last'.text \notin {BACK, MAIN_MENU}
                              /\ check_rate_limit(user_message_counts, user_last_message,
                                                  u, now))
                                => last'.notice = "blocked"]_vars

\* A user whose earlier message was delivered to the responder has been
\* blocked by that responder and has just written to the responder again.
C5_Witness ==
    /\ last.op = "handle_message"
    /\ last.notice = "blocked"
    /\ [admin_user_id |-> RoleUser[last.arg], blocked_user_id |-> last.user] \in blocks
    /\ Len(forwarded_at[last.user]) = 1
    /\ sent = <<>>

\* C6 (Spec): a message written by responder A, as a reply or as a /reply
\* command, is never forwarded to user U while the blocks table holds (A, U).
C6_ResponderNeverForwardsToBlocked ==
    (last.op \in {"handle_admin_reply", "handle_admin_message"} /\ is_admin_user(last.user))
    => \A i \in DOMAIN sent :
          [admin_user_id |-> last.user, blocked_user_id |-> sent[i].chat_id] \notin blocks

\* C8 (RateSpec): at most MAX_MESSAGES_PER_10_MINUTES new messages of one user
\* are forwarded through handle_message within any window of 600 seconds.
C8_AtMostFivePerWindow ==
    \A u \in Person : \A i \in DOMAIN forwarded_at[u] :
        Cardinality({j \in DOMAIN forwarded_at[u] :
                        /\ j >= i
                        /\ forwarded_at[u][j].at - forwarded_at[u][i].at < WINDOW_SECONDS})
            <= MAX_MESSAGES_PER_10_MINUTES

\* C9 (RateSpec): two new messages of one user forwarded through
\* handle_message are never less than 10 seconds apart.
C9_ForwardsTenSecondsApart ==
    \A u \in Person : \A i \in DOMAIN forwarded_at[u], j \in DOMAIN forwarded_at[u] :
        i < j => forwarded_at[u][j].at - forwarded_at[u][i].at >= MIN_INTERVAL_SECONDS

\* C10 (RateSpec): for a user whose recorded messages have reached the cap, a
\* new message sent more than 600 seconds after the first of them and at
\* least 10 seconds after the last one passes check_rate_limit and is
\* forwarded.
C10_WindowResets ==
    [][LET u == last'.user
           d == Get(user_message_counts, u)
       IN  (/\ handled' = handled + 1
            /\ last'.op = "handle_message"
            /\ u \in DOMAIN user_states
            /\ u \in DOMAIN user_message_counts
            /\ u \in DOMAIN user_last_message
            /\ SumCounts(d) >= MAX_MESSAGES_PER_10_MINUTES
            /\ now - Min(DOMAIN d) > WINDOW_SECONDS
            /\ now - user_last_message[u] >= MIN_INTERVAL_SECONDS)
           => /\ check_rate_limit(user_message_counts, user_last_message, u, now)
              /\ last'.notice # "rate_limited"
              /\ Len(forwarded_at'[u]) = Len(forwarded_at[u]) + 1]_vars

\* Five messages were forwarded and recorded in one window, and a sixth,
\* sent after the window of the first had ended, has just been forwarded.
C10_Witness ==
    /\ last.op = "handle_message"
    /\ last.notice = "sent"
    /\ Len(forwarded_at[Student]) = MAX_MESSAGES_PER_10_MINUTES + 1
    /\ \A i \in 1..MAX_MESSAGES_PER_10_MINUTES :
          /\ forwarded_at[Student][i].recorded
          /\ forwarded_at[Student][i].at < WINDOW_SECONDS
    /\ forwarded_at[Student][MAX_MESSAGES_PER_10_MINUTES + 1].at
          - forwarded_at[Student][1].at > WINDOW_SECONDS

\* C11 (Spec): when no resolver tier yields a thread for the id a reply
\* references, handle_admin_reply shows the 'original message not found'
\* notice, forwards nothing, and leaves the four tables, the cache, the
\* rate-limit state and the conversation state as they were.
C11_UnresolvedReplyMutatesNothing ==
    [][(/\ handled' = handled + 1
        /\ last'.op = "handle_admin_reply"
        /\ ResolveThread(message_thread_map, message_mappings, threads, messages,
                         last'.arg, last'.user) = None)
       => /\ last'.notice = "not_found"
          /\ sent' = <<>>
          /\ UNCHANGED <<threads, messages, message_mappings, blocks>>
          /\ UNCHANGED <<message_thread_map, user_message_counts, user_last_message>>
          /\ UNCHANGED <<user_states, conv>>]_vars

\* A user in WAITING_FOR_MESSAGE with a selected role and no thread has
\* replied to a message no tier knows, and was told so.
C11_Witness ==
    /\ last.op = "handle_admin_reply"
    /\ last.notice = "not_found"
    /\ last.user \in DOMAIN user_states
    /\ conv[last.user] = WAITING_FOR_MESSAGE
    /\ sent = <<>>

\* C12 (Spec): whenever handle_admin_reply persists a reply of sender S that
\* references id E into thread T, either E was recorded for T (a mapping row
\* E -> T, or a message row of T with external id E) or T is a thread of S,
\* as its user or as the responder of its role.
C12_ReplyNeverInWrongThread ==
    [][(/\ handled' = handled + 1
        /\ last'.op = "handle_admin_reply"
        /\ Len(messages') > Len(messages))
       => LET T == messages'[Len(messages')].thread_id
              E == last'.arg
              S == last'.user
          IN  \/ (E \in DOMAIN message_mappings /\ message_mappings[E] = T)
              \/ \E i \in DOMAIN messages :
                    messages[i].thread_id = T /\ messages[i].telegram_message_id = E
              \/ /\ T \in DOMAIN threads
                 /\ S \in {threads[T].user_id, RoleUser[threads[T].role_id]}]_vars

\* C13 (Spec): when a user with a selected responder who has not blocked them
\* sends the first message of a pair that has no thread yet, and the forward
\* and its confirmation succeed, then exactly one thread exists for the pair,
\* it holds a user row with the text and the inbound id and an admin row for
\* the forwarded copy whose text carries the thread marker, exactly one
\* message was sent, to the responder, and the copy's id maps to the thread
\* in message_mappings and in message_thread_map.
C13_FirstMessageCreatesThreadAndMapping ==
    [][(/\ handled' = handled + 1
        /\ last'.op = "handle_message"
        /\ last'.notice = "sent"
        /\ PairThreads(threads, last'.user, last'.arg) = {})
       => LET T == last'.ret
              e == sent'[1].message_id
          IN  /\ PairThreads(threads', last'.user, last'.arg) = {T}
              /\ \E i \in DOMAIN messages' \ DOMAIN messages :
                    /\ messages'[i].thread_id = T
                    /\ messages'[i].sender_type = "user"
                    /\ messages'[i].message_text = Text(0, last'.text)
                    /\ messages'[i].telegram_message_id = last'.id
              /\ \E i \in DOMAIN messages' \ DOMAIN messages :
                    /\ messages'[i].thread_id = T
                    /\ messages'[i].sender_type = "admin"
                    /\ messages'[i].message_text = Text(T, last'.text)
                    /\ messages'[i].telegram_message_id = e
              /\ Len(sent') = 1
              /\ sent'[1].chat_id = RoleUser[last'.arg]
              /\ sent'[1].thread_id = T
              /\ e \in DOMAIN message_mappings' /\ message_mappings'[e] = T
              /\ Get(message_thread_map', e) = T
              /\ e \notin DOMAIN message_mappings]_vars

\* The fourth update (after /start, a role and "send message") was the
\* user's first message to responder 2; it made thread 1 and was forwarded.
C13_Witness ==
    /\ handled = 4
    /\ last.op = "handle_message"
    /\ last.notice = "sent"
    /\ last.arg = 2
    /\ last.ret = 1
    /\ PairThreads(threads, last.user, 2) = {1}
    /\ Len(messages) = 2
    /\ Len(sent) = 1
    /\ sent[1].chat_id = RoleUser[2]

\* C14 (Spec): a responder's reply to the forwarded copy of a user message M
\* (the admin row with the thread marker, written right after M's user row) is
\* routed to M's thread and delivered to that thread's user with the reply
\* link set to M's id.
C14_ReplyLinksToOriginalMessage ==
    [][(/\ handled' = handled + 1
        /\ last'.op = "handle_admin_reply"
        /\ last'.notice = "reply_sent"
        /\ is_admin_user(last'.user))
       => \A i \in DOMAIN messages :
             (/\ i + 1 \in DOMAIN messages
              /\ messages[i].sender_type = "user"
              /\ messages[i + 1].sender_type = "admin"
              /\ messages[i + 1].message_text.marker > 0
              /\ messages[i + 1].telegram_message_id = last'.arg)
             => /\ last'.ret = messages[i].thread_id
                /\ Len(sent') = 1
                /\ sent'[1].chat_id = threads[messages[i].thread_id].user_id
                /\ sent'[1].reply_to = messages[i].telegram_message_id]_vars

\* C15 (Spec): in every reachable state, when the forward of a new message or
\* of a reply fails, the handler's result keeps the inbound row (the only new
\* row, in an existing thread), adds no mapping row, no cache entry for the
\* failed send and no row for a forwarded copy, shows the sender an error
\* notice, and has sent nothing to the target.
C15_FailedForwardKeepsRowOnly ==
    /\ \A u \in Senders, c \in BOOLEAN :
          LET R == handle_message(Inbound(u), u, "hello", next_msg_id, now, FALSE, c)
          IN  (conv[u] = WAITING_FOR_MESSAGE /\ R.notice = "send_failed")
              => /\ Len(R.messages) = Len(messages) + 1
                 /\ R.messages[Len(R.messages)].telegram_message_id = next_msg_id
                 /\ R.messages[Len(R.messages)].sender_type = "user"
                 /\ R.messages[Len(R.messages)].thread_id \in DOMAIN R.threads
                 /\ R.message_mappings = message_mappings
                 /\ R.message_thread_map = message_thread_map
                 /\ R.sent = <<>>
    /\ \A u \in Person, e \in DOMAIN chat_of :
          LET R == handle_admin_reply(Inbound(u), u, e, "hello", next_msg_id, now, FALSE)
          IN  (chat_of[e] = u /\ R.notice = "send_failed")
              => /\ Len(R.messages) = Len(messages) + 1
                 /\ R.messages[Len(R.messages)].telegram_message_id = next_msg_id
                 /\ R.messages[Len(R.messages)].thread_id \in DOMAIN R.threads
                 /\ R.message_mappings = message_mappings
                 /\ DOMAIN R.message_thread_map \subseteq DOMAIN message_thread_map \cup {e}
                 /\ R.sent = <<>>

\* A reply was persisted, its forward failed, and nothing was sent or mapped
\* for it.
C15_Witness ==
    /\ last.op = "handle_admin_reply"
    /\ last.notice = "send_failed"
    /\ messages[Len(messages)].telegram_message_id = last.id
    /\ last.id + 1 \notin DOMAIN message_mappings
    /\ sent = <<>>

\* C16 (Spec): in every reachable state every message row references an
\* existing thread, and every mapping row E -> T has a message row with
\* external id E in thread T.
C16_RowsAndMappingsConsistent ==
    /\ \A i \in DOMAIN messages : messages[i].thread_id \in DOMAIN threads
    /\ \A E \in DOMAIN message_mappings :
          \E i \in DOMAIN messages :
             /\ messages[i].telegram_message_id = E
             /\ messages[i].thread_id = message_mappings[E]

\* C17 (LockSpec): at no time do two bot processes both hold the guard and
\* handle the inbound stream, whichever way they were started and however
\* their starts interleave with another process's release_lock.
C17_OneProcessPolls ==
    Cardinality({p \in Procs : proc[p].pc = "polling" /\ HoldsLock(p)}) <= 1

\* C18 (LockLiveSpec): a process whose run() has ended holds no lock, and a
\* run() that acquired the lock and left its try block, for whichever cause,
\* has released the lock some time later.
C18_LockReleasedOnEveryExit ==
    /\ \A p \in Procs : [](proc[p].pc = "done" => ~HoldsLock(p))
    /\ \A p \in Procs :
          (HoldsLock(p) /\ proc[p].cause \in ExitCauses("locked") \cup ExitCauses("polling"))
             ~> (proc[p].pc = "done" /\ ~HoldsLock(p))

\* Three runs that held the lock have ended, one before polling and two
\* after it, and no lock is held.
C18_Witness ==
    /\ \A p \in Procs : proc[p].pc = "done" /\ ~HoldsLock(p)
    /\ {proc[p].cause : p \in Procs} = {"config_error", "keyboard_interrupt", "return"}

\* C19 (Spec): an update that is a text carrying a reply reference is handled
\* by handle_admin_reply, adds at most one message row, and leaves the
\* sender's conversation state as it was, whatever that state is.
C19_ReplyNeverEntersConversation ==
    [][(/\ handled' = handled + 1
        /\ last'.op \in {"handle_admin_reply", "reply_cancel"})
       => /\ Len(messages') <= Len(messages) + 1
          /\ conv' = conv]_vars

\* C20 (StoreSpec): after add_message(T, id, sender_type, text), every list
\* get_thread_messages(T) may return contains the new row with that
\* sender_type, text and id, is in non-decreasing sent_at, and
\* get_thread_messages of every other thread returns what it returned before.
C20_AddThenGetThreadMessages ==
    [][(last'.op = "add_message" /\ last'.id = last.id + 1)
       => /\ get_thread_messages(messages', last'.arg) # {}
          /\ \A res \in get_thread_messages(messages', last'.arg) :
                /\ \E k \in DOMAIN res :
                      /\ res[k].message_id = Len(messages')
                      /\ res[k].telegram_message_id = Len(messages')
                      /\ res[k].sender_type = last'.text
                      /\ res[k].message_text = "hello"
                /\ Len(res) = 1 + Cardinality({i \in DOMAIN messages :
                                                 messages[i].thread_id = last'.arg})
                /\ \A j, k \in DOMAIN res : j < k => res[j].sent_at <= res[k].sent_at
          /\ \A T \in (DOMAIN threads \cup {0}) \ {last'.arg} :
                get_thread_messages(messages', T) = get_thread_messages(messages, T)]_vars

\* A message was added to a thread that already had an earlier message, while
\* another thread existed.
C20_Witness ==
    /\ last.op = "add_message"
    /\ \E i \in DOMAIN messages :
          messages[i].thread_id = last.arg /\ messages[i].sent_at < now
    /\ messages[Len(messages)].thread_id = last.arg
    /\ messages[Len(messages)].sent_at = now
    /\ \E T \in DOMAIN threads : T # last.arg

\* C21 (ResolveSpec): every reply referencing E is routed to the result of
\* the first tier that hits for E in the state the handler found, in the
\* order cache, mapping table, admin rows with id E, user rows with id E,
\* text pattern, last resort (None when all miss).
C21_FirstTierThatHitsWins ==
    [][(handled' = handled + 1 /\ last'.op = "handle_admin_reply")
       => last'.ret = FirstHit(Tiers(message_thread_map, message_mappings, threads,
                                     messages, last'.arg, last'.user))]_vars

\* A reply was routed to the thread of the text-pattern tier while the
\* last-resort tier gave another thread of the sender.
C21_Witness ==
    /\ last.op = "handle_admin_reply"
    /\ last.ret # None
    /\ TierText(messages, last.arg) = last.ret
    /\ LET before == SubSeq(messages, 1, Len(messages) - 1)
       IN  /\ LastResort(threads, before, last.user) # None
           /\ LastResort(threads, before, last.user) # last.ret
           /\ last.arg \notin DOMAIN message_mappings

\* C22 (ResolveSpec): a reply referencing E that is resolved to thread T
\* leaves E -> T in message_thread_map, and an entry of message_thread_map is
\* never changed by a later update, so later replies referencing E get T from
\* the cache.
C22_ResolvedReplyIsCached ==
    [][/\ (handled' = handled + 1 /\ last'.op = "handle_admin_reply" /\ last'.ret # None)
          => Get(message_thread_map', last'.arg) = last'.ret
       /\ \A e \in DOMAIN message_thread_map :
             ~Falsy(message_thread_map[e])
                => Get(message_thread_map', e) = message_thread_map[e]]_vars

\* A second reply to the same id was routed to the thread cached by the
\* first one, while the database tiers now give another thread.
C22_Witness ==
    /\ last.op = "handle_admin_reply"
    /\ last.ret # None
    /\ last.arg \notin DOMAIN message_mappings
    /\ Get(message_thread_map, last.arg) = last.ret
    /\ DatabaseLookup(message_mappings, threads, SubSeq(messages, 1, Len(messages) - 1),
                      last.arg, last.user) \notin {None, last.ret}

\* C23 (Spec): the id of every message the last update forwarded (a new
\* message or a reply) maps to its thread in message_mappings and in
\* message_thread_map, and every row of message_mappings is in
\* message_thread_map with the same thread.
C23_MappingsMirroredInCache ==
    /\ \A i \in DOMAIN sent :
          sent[i].message_id # None
             => /\ Get(message_mappings, sent[i].message_id) = sent[i].thread_id
                /\ Get(message_thread_map, sent[i].message_id) = sent[i].thread_id
    /\ \A e \in DOMAIN message_mappings :
          Get(message_thread_map, e) = message_mappings[e]

\* C24 (ResolveSpec): when the cache, the mapping table, the rows with id E
\* and the text pattern all miss, the reply is routed to a thread of the
\* replying user with the greatest last_activity, and is unresolved only
\* when the replying user owns no thread.
C24_LastResortIsMostRecentlyActive ==
    [][(/\ handled' = handled + 1
        /\ last'.op = "handle_admin_reply"
        /\ FirstHit(SubSeq(Tiers(message_thread_map, message_mappings, threads, messages,
                                 last'.arg, last'.user), 1, 5)) = None)
       => LET mine == {T \in DOMAIN threads : threads[T].user_id = last'.user}
          IN  IF mine = {} THEN last'.ret = None
              ELSE /\ last'.ret \in mine
                   /\ \A T \in mine :
                         threads[T].last_activity <= threads[last'.ret].last_activity]_vars

\* C25 (PeerSpec): a forwarded reply in thread T is delivered to the
\* opposite party: to T's responder when T's user sent it, to T's user when
\* T's responder sent it, and never to its own sender.
C25_ReplyGoesToOppositeParty ==
    [][(/\ handled' = handled + 1
        /\ last'.op = "handle_admin_reply"
        /\ last'.notice = "reply_sent")
       => LET T == last'.ret
              S == last'.user
              user == threads[T].user_id
              responder == RoleUser[threads[T].role_id]
          IN  /\ Len(sent') = 1
              /\ S = user => sent'[1].chat_id = responder
              /\ S = responder => sent'[1].chat_id = user
              /\ sent'[1].chat_id # S]_vars


\* C27 (CapSpec): a new message rejected by a rate-limit check adds no message
\* row, creates no thread, forwards nothing, records no timestamp (no new
\* window entry, the last-accepted time unchanged, so the check answers as
\* it would have without the attempt at the later instants where its answer
\* can change: within the spacing and when an entry leaves the window), and
\* leaves the user in WAITING_FOR_MESSAGE.
C27_RejectedMessageLeavesNoTrace ==
    [][(/\ handled' = handled + 1
        /\ last'.op = "handle_message"
        /\ last'.notice = "rate_limited")
       => LET u == last'.user
              before == Get(user_message_counts, u)
              after == Get(user_message_counts', u)
          IN  /\ messages' = messages
              /\ threads' = threads
              /\ message_mappings' = message_mappings
              /\ message_thread_map' = message_thread_map
              /\ user_states' = user_states
              /\ sent' = <<>>
              /\ forwarded_at' = forwarded_at
              /\ user_last_message' = user_last_message
              /\ DOMAIN after \subseteq DOMAIN before
              /\ \A ts \in DOMAIN after : after[ts] = before[ts]
              /\ \A t \in (now..(now + MIN_INTERVAL_SECONDS))
                          \cup {ts + WINDOW_SECONDS + d : ts \in DOMAIN before, d \in {0, 1}} :
                    check_rate_limit(user_message_counts', user_last_message', u, t)
                    = check_rate_limit(user_message_counts, user_last_message, u, t)
              /\ conv'[u] = WAITING_FOR_MESSAGE]_vars

\* The window is full (MAX_MESSAGES_PER_10_MINUTES accepted messages, the
\* last one at least 10 seconds ago), the user has selected a responder to
\* whom they have no thread, and their message has just been rejected.
C27_Witness ==
    /\ last.op = "handle_message"
    /\ last.notice = "rate_limited"
    /\ SumCounts(Get(user_message_counts, Student)) = MAX_MESSAGES_PER_10_MINUTES
    /\ now - user_last_message[Student] >= MIN_INTERVAL_SECONDS
    /\ Falsy(user_states[Student].thread_id)
    /\ PairThreads(threads, Student, user_states[Student].selected_role) = {}


\* C28 (RateSpec): every new message that handle_message delivers to a
\* responder is recorded in the rate limiter when the handler returns (a
\* window entry at the instant of the message and the last-accepted time),
\* also when the confirmation to the user fails; and the send-failure notice
\* is shown only for messages that were not delivered.
C28_DeliveredMessageIsRecorded ==
    [][(/\ handled' = handled + 1
        /\ last'.op = "handle_message")
       => LET u == last'.user
              delivered == \E i \in DOMAIN sent' : sent'[i].kind = "forward"
          IN  /\ delivered =>
                    /\ u \in DOMAIN user_message_counts'
                    /\ now \in DOMAIN user_message_counts'[u]
                    /\ Get(user_last_message', u) = now
              /\ last'.notice = "send_failed" => ~delivered]_vars


\* C29 (ResolveSpec): for every user, at most MAX_MESSAGES_PER_10_MINUTES of
\* the user's messages are delivered to responders within a window of 600
\* seconds, new messages forwarded by handle_message and replies forwarded
\* by handle_admin_reply counted together. Every such delivery is a mapped
\* bot message in a responder's chat; while the clock is within the first
\* 600 seconds all of them lie in one window.
C29_DeliveriesPerWindowCapped ==
    now < WINDOW_SECONDS =>
        \A u \in Senders :
            Cardinality({e \in DOMAIN message_mappings \cap DOMAIN chat_of :
                            /\ is_admin_user(chat_of[e])
                            /\ message_mappings[e] \in DOMAIN threads
                            /\ threads[message_mappings[e]].user_id = u})
                <= MAX_MESSAGES_PER_10_MINUTES


\* C30 (CapSpec): the cap counts per user and per role. A new message to the
\* selected role, sent at least 10 seconds after the user's last accepted
\* message, is not rejected while fewer than MAX_MESSAGES_PER_10_MINUTES of
\* the user's messages to that role lie in the last 600 seconds, however
\* many the user has sent to other roles.
C30_CapIsPerRole ==
    [][(/\ handled' = handled + 1
        /\ last'.op = "handle_message"
        /\ last'.user \in DOMAIN user_states
        /\ last'.user \in DOMAIN user_last_message
        /\ now - user_last_message[last'.user] >= MIN_INTERVAL_SECONDS
        /\ LET u == last'.user
               r == user_states[u].selected_role
           IN  Cardinality({i \in DOMAIN messages :
                               /\ messages[i].thread_id \in PairThreads(threads, u, r)
                               /\ messages[i].sender_type = "user"
                               /\ messages[i].sent_at > now - WINDOW_SECONDS})
                   < MAX_MESSAGES_PER_10_MINUTES)
       => last'.notice # "rate_limited"]_vars


\* C31 (Spec): selecting a responder who has blocked the selecting user is
\* rejected with the block notice: the user is in CHOOSING_ROLE afterwards,
\* the user's stored selection is as before, and no thread row and no message
\* row is written.
C31_BlockedSelectionRejected ==
    [][(/\ handled' = handled + 1
        /\ last'.op = "select_role"
        /\ [admin_user_id |-> RoleUser[last'.arg], blocked_user_id |-> last'.user]
              \in blocks)
       => /\ last'.notice = "blocked"
          /\ conv'[last'.user] = CHOOSING_ROLE
          /\ user_states' = user_states
          /\ threads' = threads
          /\ messages' = messages]_vars

\* A user with a stored selection and a thread has been blocked by the
\* responder and has just selected that responder again.
C31_Witness ==
    /\ last.op = "select_role"
    /\ last.notice = "blocked"
    /\ [admin_user_id |-> RoleUser[last.arg], blocked_user_id |-> last.user] \in blocks
    /\ last.user \in DOMAIN user_states
    /\ ~Falsy(user_states[last.user].thread_id)


C33_ControlTokenLeavesWaiting ==
    [][(/\ handled' = handled + 1
        /\ last'.op = "handle_message"
        /\ last'.text \in {BACK, MAIN_MENU})
       => /\ conv'[last'.user] = CHOOSING_ROLE
          /\ messages' = messages
          /\ sent' = <<>>]_vars

\* C34 (ResolveSpec): handling a reserved control token leaves the durable
\* store unchanged: no thread row is created, no message row and no mapping
\* row is written and no thread's last_activity changes, also when the user
\* has selected a responder with whom no thread exists.
C34_ControlTokenWritesNothing ==
    [][(/\ handled' = handled + 1
        /\ last'.op = "handle_message"
        /\ last'.text \in {BACK, MAIN_MENU})
       => /\ threads' = threads
          /\ messages' = messages
          /\ message_mappings' = message_mappings]_vars


\* C35 (Spec): a /cancel command from a user in a conversation state, sent
\* plainly or as a reply, removes the user's entry from user_states, puts
\* the user in CHOOSING_ROLE, and leaves threads, messages, blocks, mappings,
\* the mapping cache and the rate-limit state unchanged.
C35_CancelClearsOnlyTransientState ==
    [][(/\ handled' = handled + 1
        /\ last'.op \in {"cancel", "reply_cancel"}
        /\ conv[last'.user] \in {CHOOSING_ROLE, WAITING_FOR_MESSAGE})
       => /\ last'.user \notin DOMAIN user_states'
          /\ conv'[last'.user] = CHOOSING_ROLE
          /\ threads' = threads
          /\ messages' = messages
          /\ blocks' = blocks
          /\ message_mappings' = message_mappings
          /\ message_thread_map' = message_thread_map
          /\ user_message_counts' = user_message_counts
          /\ user_last_message' = user_last_message]_vars


\* C36 (Spec): whenever user_states[u] holds a thread id, that thread's user
\* is u and its role is the stored selected role; every message row that
\* handle_message writes goes into a thread of (sender, selected role) and
\* every forward goes to that role's responder; and for a user without a
\* stored selection handle_message writes and forwards nothing.
C36_StateThreadBelongsToSelection ==
    [][/\ \A u \in DOMAIN user_states' :
             ~Falsy(user_states'[u].thread_id)
             => /\ user_states'[u].thread_id \in DOMAIN threads'
                /\ threads'[user_states'[u].thread_id].user_id = u
                /\ threads'[user_states'[u].thread_id].role_id
                      = user_states'[u].selected_role
       /\ (handled' = handled + 1 /\ last'.op = "handle_message")
          => LET u == last'.user
             IN  IF u \notin DOMAIN user_states
                 THEN messages' = messages /\ threads' = threads /\ sent' = <<>>
                 ELSE LET r == user_states[u].selected_role
                      IN  /\ \A i \in DOMAIN messages' \ DOMAIN messages :
                                /\ messages'[i].thread_id \in DOMAIN threads'
                                /\ threads'[messages'[i].thread_id].user_id = u
                                /\ threads'[messages'[i].thread_id].role_id = r
                          /\ \A i \in DOMAIN sent' :
                                /\ sent'[i].chat_id = RoleUser[r]
                                /\ sent'[i].thread_id \in DOMAIN threads'
                                /\ threads'[sent'[i].thread_id].user_id = u
                                /\ threads'[sent'[i].thread_id].role_id = r]_vars

\* A user who selected role 2 has just had a message persisted in the thread
\* of (user, role 2), which the user's state holds, and forwarded to the
\* responder of role 2.
C36_Witness ==
    /\ last.op = "handle_message"
    /\ last.notice = "sent"
    /\ user_states[last.user].selected_role = 2
    /\ user_states[last.user].thread_id = last.ret
    /\ threads[last.ret].role_id = 2
    /\ \E i \in DOMAIN messages :
          messages[i].thread_id = last.ret /\ messages[i].sender_type = "user"
    /\ Len(sent) = 1 /\ sent[1].chat_id = RoleUser[2]


\* C37 (Spec): a responder who has blocked user U lifts the block by replying
\* '/unblock' to a message of a thread of U with that responder: after the
\* reply is handled the blocks table does not hold (responder, U).
C37_UnblockReplyLiftsBlock ==
    [][(/\ handled' = handled + 1
        /\ last'.op = "handle_admin_reply"
        /\ last'.text = "/unblock"
        /\ last'.ret \in DOMAIN threads
        /\ last'.user = RoleUser[threads[last'.ret].role_id]
        /\ [admin_user_id |-> last'.user,
            blocked_user_id |-> threads[last'.ret].user_id] \in blocks)
       => [admin_user_id |-> last'.user,
           blocked_user_id |-> threads[last'.ret].user_id] \notin blocks']_vars

\* C38 (Spec): a responder's reply whose text is '/blocks', to a message of a
\* thread, changes nothing: the blocks table, the messages table and the
\* mappings are as before and nothing is forwarded.
C38_BlocksReplyChangesNothing ==
    [][(/\ handled' = handled + 1
        /\ last'.op = "handle_admin_reply"
        /\ last'.text = "/blocks"
        /\ is_admin_user(last'.user)
        /\ last'.ret \in DOMAIN threads)
       => /\ blocks' = blocks
          /\ messages' = messages
          /\ message_mappings' = message_mappings
          /\ sent' = <<>>]_vars


\* C39 (BlockSpec): block operations are upserts keyed by (responder, user).
\* Before any call nobody is blocked; a call on (A, U) makes
\* is_user_blocked(A, U) true when it is block_user and false when it is
\* unblock_user, and leaves it as it was for every other pair, so
\* is_user_blocked(A, U) tells whether the last operation on (A, U) was
\* block_user; block_user on a pair already blocked leaves the table's
\* membership as it was; and the table holds at most one row per pair.
C39_BlockedIffLastOpWasBlock ==
    [][/\ last.op = "init" => blocks = {}
       /\ last'.op \in {"block_user", "unblock_user"}
          => \A a \in Person, u \in Person :
                LET row == [admin_user_id |-> a, blocked_user_id |-> u]
                IN  /\ is_user_blocked(blocks', a, u)
                       = IF <<a, u>> = <<last'.arg, last'.user>>
                         THEN last'.op = "block_user"
                         ELSE is_user_blocked(blocks, a, u)
                    /\ is_user_blocked(blocks', a, u) <=> row \in blocks'
                    /\ Cardinality({b \in blocks' : b.admin_user_id = a
                                                    /\ b.blocked_user_id = u}) <= 1
       /\ (/\ last'.op = "block_user"
           /\ [admin_user_id |-> last'.arg, blocked_user_id |-> last'.user] \in blocks)
          => blocks' = blocks]_vars

\* A has just unblocked U while U's own block of A stays in the table.
C39_Witness ==
    /\ last.op = "unblock_user"
    /\ last.arg # last.user
    /\ [admin_user_id |-> last.arg, blocked_user_id |-> last.user] \notin blocks
    /\ [admin_user_id |-> last.user, blocked_user_id |-> last.arg] \in blocks


\* C40 (ReadSpec): message rows are append-only. Every row stays at its place
\* with its thread, external id, sender type, text and time; is_read changes
\* only in a call of mark_messages_as_read and only for rows of the given
\* thread and sender type, all of which it marks read without adding or
\* removing a row.
C40_MessageRowsAppendOnly ==
    [][/\ \A i \in DOMAIN messages :
             /\ i \in DOMAIN messages'
             /\ messages'[i].thread_id = messages[i].thread_id
             /\ messages'[i].telegram_message_id = messages[i].telegram_message_id
             /\ messages'[i].sender_type = messages[i].sender_type
             /\ messages'[i].message_text = messages[i].message_text
             /\ messages'[i].sent_at = messages[i].sent_at
             /\ messages'[i].is_read # messages[i].is_read
                   => /\ last'.op = "mark_messages_as_read"
                      /\ messages[i].thread_id = last'.arg
                      /\ messages[i].sender_type = last'.text
                      /\ messages'[i].is_read
       /\ (last'.id = last.id + 1 /\ last'.op = "mark_messages_as_read")
          => /\ DOMAIN messages' = DOMAIN messages
             /\ \A i \in DOMAIN messages :
                   (messages[i].thread_id = last'.arg
                    /\ messages[i].sender_type = last'.text) => messages'[i].is_read]_vars

\* mark_messages_as_read has just marked a thread's rows of one sender type
\* while a row of the other sender type in the same thread stays unread.
C40_Witness ==
    /\ last.op = "mark_messages_as_read"
    /\ \E i \in DOMAIN messages, j \in DOMAIN messages :
          /\ messages[i].thread_id = last.arg
          /\ messages[j].thread_id = last.arg
          /\ messages[i].sender_type = last.text
          /\ messages[j].sender_type # last.text
          /\ messages[i].is_read
          /\ ~messages[j].is_read

=============================================================================
